---- MODULE Spec2Model ----
(***************************************************************************)
(* Model of examples/stream-rt/stream-rt.cpp: the command-line parser, the *)
(* timestamp formatter, the wav reader and the main streaming loop.        *)
(*                                                                         *)
(* Standard input is modelled as a byte stream of a given length with a    *)
(* read position and the eofbit/failbit of std::cin; the sample values are *)
(* abstracted to one flag (every sample of the stream is zero or not).     *)
(* Standard output holds the transcript records written with printf; the   *)
(* progress messages written through std::cout/std::cerr are not modelled. *)
(* The recognition engine (whisper_full and its accessors) is external:    *)
(* each call nondeterministically fails or returns one of a few segment    *)
(* lists.                                                                  *)
(***************************************************************************)
EXTENDS Integers, Sequences, FiniteSets, TLC

VARIABLES
    pc,             \* position of main: start, init, open, loop, process, shutdown, exited
    params,         \* whisper_params
    n_samples_step, \* main: const int n_samples_step
    ctx,            \* whisper_context handle: "null", "live", "freed"
    pcmf32,         \* size of std::vector<float> pcmf32 (samples)
    pcmf32_old,     \* size of std::vector<float> pcmf32_old (samples)
    fout,           \* std::ofstream fout: "unopened", "open", "failed", "closed"
    fout_data,      \* records written to the output file
    is_running,     \* main: bool is_running
    n_iter,         \* main: int n_iter
    stdin_len,      \* bytes available on standard input before end-of-file
    stdin_zero,     \* TRUE when every sample on standard input is zero
    cin,            \* std::cin: [pos, eofbit, failbit]
    n_reads,        \* number of read operations issued on standard input
    stdout,         \* transcript records written to standard output
    calls,          \* history of whisper_full calls: window, return code, segments
    parse_error,    \* the parser met an argument it rejects
    exit_code       \* process exit status, meaningful when pc = "exited"

vars == <<pc, params, n_samples_step, ctx, pcmf32, pcmf32_old, fout, fout_data,
          is_running, n_iter, stdin_len, stdin_zero, cin, n_reads, stdout,
          calls, parse_error, exit_code>>

----------------------------------------------------------------------------
(* Program constants *)

WHISPER_SAMPLE_RATE == 16000

DefaultStepMs == 3000

DefaultLengthMs == 10000

DefaultKeepMs == 200

\* vad_thold = 0.6f, kept in hundredths
DefaultVadThold == 60

\* std::cin.ignore(44)
WavHeaderBytes == 44

\* buffer16((1e-3 * 10000) * WHISPER_SAMPLE_RATE)
WavBufferMs == 10000

\* sizeof(float)
SizeofFloat == 4

\* sizeof(int16_t)
SizeofInt16 == 2

\* status of a process ended by std::terminate -> abort (128 + SIGABRT)
AbortStatus == 134

----------------------------------------------------------------------------
(* Bounds of the model *)

\* number of options on the command line
MaxArgs == 2

\* number of whole reads the input stream may hold
MaxChunks == 2

\* number of recognition calls explored in one run
MaxCalls == 3

----------------------------------------------------------------------------
(* struct whisper_params, default member initializers *)

DefaultParams ==
    [ step_ms       |-> DefaultStepMs,
      length_ms     |-> DefaultLengthMs,
      keep_ms       |-> DefaultKeepMs,
      vad_thold     |-> DefaultVadThold,
      from_wav_file |-> FALSE,
      no_context    |-> TRUE,
      no_timestamps |-> FALSE,
      fname_out     |-> "" ]

----------------------------------------------------------------------------
(* Command line *)

\* the decimal strings the enumerated command lines use as option values
ArgInts == {0, 1}

\* std::stoi / std::stof throw std::invalid_argument on a non-numeric string
StoiThrows(s) == ~(\E n \in ArgInts : ToString(n) = s)

Stoi(s) == CHOOSE n \in ArgInts : ToString(n) = s

\* std::stof, the result kept in hundredths
Stof(s) == 100 * Stoi(s)

\* options that set a field the model does not carry (-t, -c, -mt, -ac, -fth,
\* -su, -tr, -nf, -ps, -l, -m, -tdrz, -sa, -ng); the ones without a value
PlainFlags == {"-su", "--speed-up", "-tr", "--translate", "-nf", "--no-fallback",
               "-ps", "--print-special", "-tdrz", "--tinydiarize",
               "-sa", "--save-audio", "-ng", "--no-gpu"}

ParseReturn(p) == [outcome |-> "return", ret |-> TRUE, params |-> p, error |-> FALSE]

ParseExit(p, code, err) == [outcome |-> "exit", code |-> code, params |-> p, error |-> err]

ParseThrow(p) == [outcome |-> "throw", params |-> p, error |-> TRUE]

\* whisper_params_parse: the loop over argv from index i on.  argv holds
\* argv[1..argc-1].  The result is how the call ends: it returns true, it
\* calls exit(code), or std::stoi/std::stof throws.
RECURSIVE ParseFrom(_, _, _)
ParseFrom(argv, i, p) ==
    IF i > Len(argv) THEN ParseReturn(p)
    ELSE LET arg == argv[i] IN
        CASE arg \in {"-h", "--help"} -> ParseExit(p, 0, FALSE)
          [] arg = "--step" ->
                IF StoiThrows(argv[i + 1]) THEN ParseThrow(p)
                ELSE ParseFrom(argv, i + 2, [p EXCEPT !.step_ms = Stoi(argv[i + 1])])
          [] arg = "--length" ->
                IF StoiThrows(argv[i + 1]) THEN ParseThrow(p)
                ELSE ParseFrom(argv, i + 2, [p EXCEPT !.length_ms = Stoi(argv[i + 1])])
          [] arg = "--keep" ->
                IF StoiThrows(argv[i + 1]) THEN ParseThrow(p)
                ELSE ParseFrom(argv, i + 2, [p EXCEPT !.keep_ms = Stoi(argv[i + 1])])
          [] arg \in {"-vth", "--vad-thold"} ->
                IF StoiThrows(argv[i + 1]) THEN ParseThrow(p)
                ELSE ParseFrom(argv, i + 2, [p EXCEPT !.vad_thold = Stof(argv[i + 1])])
          [] arg \in PlainFlags -> ParseFrom(argv, i + 1, p)
          [] arg \in {"-kc", "--keep-context"} ->
                ParseFrom(argv, i + 1, [p EXCEPT !.no_context = FALSE])
          [] arg \in {"-f", "--file"} ->
                ParseFrom(argv, i + 2, [p EXCEPT !.fname_out = argv[i + 1]])
          [] arg = "--from-wav-file" ->
                ParseFrom(argv, i + 1, [p EXCEPT !.from_wav_file = TRUE])
          [] OTHER -> ParseExit(p, 0, TRUE)

whisper_params_parse(argv) == ParseFrom(argv, 1, DefaultParams)

\* the options a command line is built from, each with its value
Options ==
    { <<"-h">>, <<"--bogus">>, <<"-tr">>, <<"-kc">>, <<"--from-wav-file">>,
      <<"--step", "0">>, <<"--step", "1">>, <<"--step", "x">>,
      <<"--length", "1">>, <<"--keep", "0">>, <<"-vth", "0">>,
      <<"-f", "out.txt">> }

RECURSIVE Flatten(_)
Flatten(ss) == IF ss = <<>> THEN <<>> ELSE Head(ss) \o Flatten(Tail(ss))

ArgvSet == { Flatten(ss) : ss \in UNION { [1..n -> Options] : n \in 0..MaxArgs } }

----------------------------------------------------------------------------
(* Timestamps *)

\* printf("%0<w>d", n) for n >= 0
PrintfD(w, n) ==
    LET d == ToString(n)
        RECURSIVE Zeros(_)
        Zeros(k) == IF k <= 0 THEN "" ELSE "0" \o Zeros(k - 1)
    IN  Zeros(w - Len(d)) \o d

to_timestamp(t) ==
    LET sec0 == t \div 100
        msec == t - sec0 * 100
        min  == sec0 \div 60
        sec  == sec0 - min * 60
    IN  PrintfD(2, min) \o ":" \o PrintfD(2, sec) \o "." \o PrintfD(3, msec)

----------------------------------------------------------------------------
(* Standard input *)

Min(a, b) == IF a < b THEN a ELSE b

\* const int n = (1e-3 * ms) * WHISPER_SAMPLE_RATE, for the durations enumerated
MsToSamples(ms) == (ms * WHISPER_SAMPLE_RATE) \div 1000

cin_good(c) == ~c.eofbit /\ ~c.failbit

\* std::cin.ignore(n): skips up to n bytes; end-of-file before n sets eofbit.
\* On a stream that is not good the sentry sets failbit and nothing is skipped.
cin_ignore(c, n, len) ==
    IF ~cin_good(c) THEN [c EXCEPT !.failbit = TRUE, !.gcount = 0]
    ELSE LET k == Min(n, len - c.pos)
         IN  [pos |-> c.pos + k, eofbit |-> k < n, failbit |-> FALSE, gcount |-> k]

\* std::cin.read(buf, n): reads up to n bytes; fewer than n sets eofbit and
\* failbit.  On a stream that is not good the sentry sets failbit, gcount is 0.
cin_read(c, n, len) ==
    IF ~cin_good(c) THEN [c EXCEPT !.failbit = TRUE, !.gcount = 0]
    ELSE LET k == Min(n, len - c.pos)
         IN  [pos |-> c.pos + k, eofbit |-> k < n, failbit |-> k < n, gcount |-> k]

\* readWavStreamAsFloats: skip 44 bytes, read a 10 s buffer of int16_t, throw
\* when nothing was read, else return a vector as long as the buffer.
readWavStreamAsFloats(c, len) ==
    LET size == MsToSamples(WavBufferMs)
        c1   == cin_ignore(c, WavHeaderBytes, len)
        c2   == cin_read(c1, size * SizeofInt16, len)
    IN  IF c2.gcount = 0
        THEN [outcome |-> "throw", cin |-> c2, size |-> 0]
        ELSE [outcome |-> "return", cin |-> c2, size |-> size]

\* lengths of the input streams explored: whole numbers of reads of each of
\* the read sizes in use, with and without a trailing byte, and the streams
\* of exactly one window (length_ms) of samples
StreamUnits ==
    { MsToSamples(1) * SizeofFloat,
      MsToSamples(DefaultStepMs) * SizeofFloat,
      WavHeaderBytes + MsToSamples(WavBufferMs) * SizeofInt16 }

StreamLens ==
    { k * u + r : k \in 0..MaxChunks, u \in StreamUnits, r \in {0, 1} }
    \cup { MsToSamples(DefaultLengthMs) * SizeofFloat,
           WavHeaderBytes + MsToSamples(1) * SizeofInt16,
           WavHeaderBytes + 2 * MsToSamples(WavBufferMs) * SizeofInt16 }

----------------------------------------------------------------------------
(* Recognition engine (external) *)

Segment(t0, t1, text) == [t0 |-> t0, t1 |-> t1, text |-> text]

\* what whisper_full_n_segments / _get_segment_t0 / _t1 / _text report after
\* a successful call
SegmentLists ==
    { <<>>,
      << Segment(0, 6134, " hello") >>,
      << Segment(0, 250, " one"), Segment(250, 6134, " two") >> }

\* whisper_full: a non-zero return code, or 0 and a list of segments
WhisperFullOutcomes ==
    { [ret |-> 1, segs |-> <<>>] } \cup { [ret |-> 0, segs |-> s] : s \in SegmentLists }

----------------------------------------------------------------------------
(* Segment output *)

\* printf("%s", text) / printf("[%s --> %s] %s\n", ...)
StdoutRecord(p, seg) ==
    IF p.no_timestamps THEN seg.text
    ELSE "[" \o to_timestamp(seg.t0) \o " --> " \o to_timestamp(seg.t1) \o "] "
         \o seg.text \o "\n"

\* lines 331/341 writing the text alone to the file
FoutRecord_TextOnly(p, seg) == seg.text

\* fout << text / fout << "[" << ... << "] " << text << std::endl
FoutRecord(p, seg) ==
    IF p.no_timestamps THEN seg.text
    ELSE "[" \o to_timestamp(seg.t0) \o " --> " \o to_timestamp(seg.t1) \o "] "
         \o seg.text \o "\n"

StdoutRecords(p, segs) == [i \in 1..Len(segs) |-> StdoutRecord(p, segs[i])]

FoutRecords(p, segs) == [i \in 1..Len(segs) |-> FoutRecord(p, segs[i])]

----------------------------------------------------------------------------
(* main *)

Init ==
    /\ pc = "start"
    /\ params = DefaultParams
    /\ n_samples_step = 0
    /\ ctx = "null"
    /\ pcmf32 = 0
    /\ pcmf32_old = 0
    /\ fout = "unopened"
    /\ fout_data = <<>>
    /\ is_running = FALSE
    /\ n_iter = 0
    /\ stdin_len \in StreamLens
    /\ stdin_zero \in BOOLEAN
    /\ cin = [pos |-> 0, eofbit |-> FALSE, failbit |-> FALSE, gcount |-> 0]
    /\ n_reads = 0
    /\ stdout = <<>>
    /\ calls = <<>>
    /\ parse_error = FALSE
    /\ exit_code = 0

\* return code / exit(code) / abort: the process ends
Exit(code) == pc' = "exited" /\ exit_code' = code

\* lines 225-236: parse the command line, compute n_samples_step
Main_Parse ==
    /\ pc = "start"
    /\ \E argv \in ArgvSet :
         LET r == whisper_params_parse(argv) IN
         /\ params' = r.params
         /\ parse_error' = r.error
         /\ IF r.outcome = "exit" THEN Exit(r.code) /\ UNCHANGED n_samples_step
            ELSE IF r.outcome = "throw" THEN Exit(AbortStatus) /\ UNCHANGED n_samples_step
            ELSE IF ~r.ret THEN Exit(1) /\ UNCHANGED n_samples_step
            ELSE /\ pc' = "init"
                 /\ n_samples_step' = MsToSamples(r.params.step_ms)
                 /\ UNCHANGED exit_code
    /\ UNCHANGED <<ctx, pcmf32, pcmf32_old, fout, fout_data, is_running, n_iter,
                   stdin_len, stdin_zero, cin, n_reads, stdout, calls>>

\* lines 240-244 with the output file opened (lines 252-255) ahead of the
\* context: the file exists when return 2 is reached
ContextInitFailed_FileOpened ==
    /\ fout' = IF params.fname_out # "" THEN "open" ELSE fout
    /\ Exit(2)
    /\ UNCHANGED <<ctx, pcmf32, pcmf32_old>>

\* lines 240-244: whisper_init_from_file_with_params returned null, return 2
ContextInitFailed ==
    /\ Exit(2)
    /\ UNCHANGED <<ctx, pcmf32, pcmf32_old, fout>>

\* lines 238-249: load the model, allocate pcmf32 and pcmf32_old
Main_InitContext ==
    /\ pc = "init"
    /\ \E loaded \in BOOLEAN :
         IF ~loaded
         THEN ContextInitFailed
         ELSE /\ ctx' = "live"
              /\ pcmf32' = n_samples_step
              /\ pcmf32_old' = 0
              /\ pc' = "open"
              /\ UNCHANGED <<exit_code, fout>>
    /\ UNCHANGED <<params, n_samples_step, fout_data, is_running, n_iter,
                   stdin_len, stdin_zero, cin, n_reads, stdout, calls, parse_error>>

\* lines 256-260 with the return dropped: the failure is reported and main
\* goes on into the loop
OutputOpenFailed_NoReturn ==
    /\ fout' = "failed"
    /\ is_running' = TRUE
    /\ n_iter' = 0
    /\ pc' = "loop"
    /\ UNCHANGED exit_code

\* lines 256-260: fout.is_open() is false, return 3
OutputOpenFailed ==
    /\ fout' = "failed"
    /\ Exit(3)
    /\ UNCHANGED <<is_running, n_iter>>

\* lines 251-267: open the output file when one is named, then enter the loop
Main_OpenOutput ==
    /\ pc = "open"
    /\ \E opened \in BOOLEAN :
         IF params.fname_out # "" /\ ~opened
         THEN OutputOpenFailed
         ELSE /\ fout' = IF params.fname_out # "" THEN "open" ELSE fout
              /\ is_running' = TRUE
              /\ n_iter' = 0
              /\ pc' = "loop"
              /\ UNCHANGED exit_code
    /\ UNCHANGED <<params, n_samples_step, ctx, pcmf32, pcmf32_old, fout_data,
                   stdin_len, stdin_zero, cin, n_reads, stdout, calls, parse_error>>

\* line 278 without sizeof(float): as many bytes as pcmf32 has samples
RawReadBytes_NoSizeof == pcmf32

\* line 278: pcmf32.size() * sizeof(float)
RawReadBytes == pcmf32 * SizeofFloat

\* lines 268-289: one read of the next window from standard input
Main_Read ==
    /\ pc = "loop"
    /\ is_running
    /\ n_reads' = IF n_reads <= MaxCalls THEN n_reads + 1 ELSE n_reads
    /\ IF params.from_wav_file
       THEN LET r == readWavStreamAsFloats(cin, stdin_len) IN
            /\ cin' = r.cin
            /\ IF r.outcome = "throw"
               THEN Exit(AbortStatus) /\ UNCHANGED pcmf32
               ELSE /\ pcmf32' = r.size
                    /\ pc' = IF r.cin.eofbit THEN "shutdown" ELSE "process"
                    /\ UNCHANGED exit_code
       ELSE LET c == cin_read(cin, RawReadBytes, stdin_len) IN
            /\ cin' = c
            /\ pc' = IF c.eofbit THEN "shutdown" ELSE "process"
            /\ UNCHANGED <<pcmf32, exit_code>>
    /\ UNCHANGED <<params, n_samples_step, ctx, pcmf32_old, fout, fout_data,
                   is_running, n_iter, stdin_len, stdin_zero, stdout, calls,
                   parse_error>>

\* line 268: while (is_running) is false
Main_LoopExit ==
    /\ pc = "loop"
    /\ ~is_running
    /\ pc' = "shutdown"
    /\ UNCHANGED <<params, n_samples_step, ctx, pcmf32, pcmf32_old, fout, fout_data,
                   is_running, n_iter, stdin_len, stdin_zero, cin, n_reads, stdout,
                   calls, parse_error, exit_code>>

\* the window handed to whisper_full: where its bytes start on standard
\* input, its length in samples, and whether every sample of it is zero
Window ==
    [ off  |-> cin.pos - cin.gcount,
      n    |-> pcmf32,
      zero |-> stdin_zero \/ pcmf32 = 0 ]

\* lines 315-319 without is_running = false: the failure is reported and the
\* loop goes on
WhisperFullFailed_KeepRunning == UNCHANGED <<is_running, stdout, fout_data, n_iter>>

\* lines 315-319 without the continue: the loop body goes on to print the
\* segments the context still holds from the call before
WhisperFullFailed_PrintsSegments ==
    LET stale == IF calls = <<>> THEN <<>> ELSE calls[Len(calls)].segs IN
    /\ is_running' = FALSE
    /\ stdout' = stdout \o StdoutRecords(params, stale)
    /\ fout_data' = IF fout = "open"
                    THEN fout_data \o FoutRecords(params, stale) ELSE fout_data
    /\ UNCHANGED n_iter

\* lines 315-319 with the iteration counted before the continue
WhisperFullFailed_CountsIteration ==
    /\ is_running' = FALSE
    /\ n_iter' = n_iter + 1
    /\ UNCHANGED <<stdout, fout_data>>

\* lines 315-319: whisper_full returned non-zero; is_running = false; continue
WhisperFullFailed ==
    /\ is_running' = FALSE
    /\ UNCHANGED <<stdout, fout_data, n_iter>>

\* lines 291-347: whisper_full on pcmf32; on failure stop the loop, otherwise
\* print the segments and count the iteration
Main_Recognize ==
    /\ pc = "process"
    /\ Len(calls) < MaxCalls
    /\ \E out \in WhisperFullOutcomes :
         /\ calls' = Append(calls, [window |-> Window, ret |-> out.ret, segs |-> out.segs])
         /\ IF out.ret # 0
            THEN WhisperFullFailed
            ELSE /\ stdout' = stdout \o StdoutRecords(params, out.segs)
                 /\ fout_data' = IF fout = "open"
                                 THEN fout_data \o FoutRecords(params, out.segs)
                                 ELSE fout_data
                 /\ n_iter' = n_iter + 1
                 /\ UNCHANGED is_running
    /\ pc' = "loop"
    /\ UNCHANGED <<params, n_samples_step, ctx, pcmf32, pcmf32_old, fout,
                   stdin_len, stdin_zero, cin, n_reads, parse_error, exit_code>>

\* lines 349-360: close the output file, free the context, return 0
Main_Shutdown ==
    /\ pc = "shutdown"
    /\ fout' = IF fout = "open" THEN "closed" ELSE fout
    /\ ctx' = "freed"
    /\ Exit(0)
    /\ UNCHANGED <<params, n_samples_step, pcmf32, pcmf32_old, fout_data, is_running,
                   n_iter, stdin_len, stdin_zero, cin, n_reads, stdout, calls,
                   parse_error>>

Next ==
    \/ Main_Parse
    \/ Main_InitContext
    \/ Main_OpenOutput
    \/ Main_Read
    \/ Main_LoopExit
    \/ Main_Recognize
    \/ Main_Shutdown

Spec == Init /\ [][Next]_vars

----------------------------------------------------------------------------
(* Properties *)

\* a whisper_full call of this run returned non-zero
EngineFailed == \E i \in DOMAIN calls : calls[i].ret # 0

\* the records the successful calls among cs put on standard output
RECURSIVE EmittedBy(_)
EmittedBy(cs) ==
    IF cs = <<>> THEN <<>>
    ELSE EmittedBy(SubSeq(cs, 1, Len(cs) - 1))
         \o (IF cs[Len(cs)].ret = 0
             THEN StdoutRecords(params, cs[Len(cs)].segs) ELSE <<>>)

\* length_ms * sampleRate / 1000
WindowCapacity == MsToSamples(params.length_ms)

\* the main loop was entered and has read from standard input
LoopStarted == n_reads >= 1

----------------------------------------------------------------------------
(* Termination: the loop followed past the recorded history *)

\* lines 291-347 once MaxCalls calls are on record: the call is made and a
\* failure stops the loop as before, but the call, its records and its count
\* are no longer added to calls, stdout, fout_data and n_iter
Main_RecognizeUnrecorded ==
    /\ pc = "process"
    /\ Len(calls) >= MaxCalls
    /\ \E out \in WhisperFullOutcomes :
         is_running' = (out.ret = 0)
    /\ pc' = "loop"
    /\ UNCHANGED <<params, n_samples_step, ctx, pcmf32, pcmf32_old, fout, fout_data,
                   n_iter, stdin_len, stdin_zero, cin, n_reads, stdout, calls,
                   parse_error, exit_code>>

\* short streams of float samples: up to MaxCalls + 1 reads of 1 ms, with and
\* without a trailing byte
LiveStreamLens ==
    { k * MsToSamples(1) * SizeofFloat + r : k \in 0..(MaxCalls + 1), r \in {0, 1} }

InitLive ==
    /\ pc = "start"
    /\ params = DefaultParams
    /\ n_samples_step = 0
    /\ ctx = "null"
    /\ pcmf32 = 0
    /\ pcmf32_old = 0
    /\ fout = "unopened"
    /\ fout_data = <<>>
    /\ is_running = FALSE
    /\ n_iter = 0
    /\ stdin_len \in LiveStreamLens
    /\ stdin_zero = FALSE
    /\ cin = [pos |-> 0, eofbit |-> FALSE, failbit |-> FALSE, gcount |-> 0]
    /\ n_reads = 0
    /\ stdout = <<>>
    /\ calls = <<>>
    /\ parse_error = FALSE
    /\ exit_code = 0

LiveNext ==
    \/ Next
    \/ Main_RecognizeUnrecorded

\* main is one sequential thread: whenever it has a next step it takes it, and
\* every whisper_full call returns
LiveSpec == InitLive /\ [][LiveNext]_vars /\ WF_vars(LiveNext)

\* C14: for every configuration (step duration 0 included) and every finite
\* input stream, with every recognition call returning, the process
\* eventually terminates.
C14_LoopTerminates == <>(pc = "exited")


\* C1: when a recognition call failed during the main loop, the process ends
\* with a non-zero exit code.
C1_EngineFailureExitsNonZero ==
    (pc = "exited" /\ EngineFailed) => exit_code # 0

\* C2: after a recognition call failed on iteration k the engine is never
\* called again, and at the failure the segments of all the iterations before
\* k are on standard output (k calls succeeded and were counted).
C2_NoCallAfterFailure ==
    [][ /\ EngineFailed => calls' = calls
        /\ EngineFailed' =>
             /\ \A i \in 1..(Len(calls') - 1) : calls'[i].ret = 0
             /\ stdout' = EmittedBy(SubSeq(calls', 1, Len(calls') - 1))
             /\ n_iter' = Len(calls') - 1 ]_vars

\* a call failed after an earlier iteration had emitted its segments, and the
\* run has ended
C2_Witness ==
    /\ pc = "exited"
    /\ EngineFailed
    /\ Len(calls) >= 2
    /\ stdout # <<>>

\* C3: every window passed to the recognition engine has exactly
\* length_ms * sampleRate / 1000 samples.
C3_WindowHasCapacity ==
    \A i \in DOMAIN calls : calls[i].window.n = WindowCapacity

\* C4: at the start of an iteration the retained context holds
\* keep_ms * sampleRate / 1000 samples when keep-context is enabled and the
\* iteration is not the first; otherwise it is empty.
C4_RetainedContext ==
    (pc = "loop" /\ is_running) =>
        pcmf32_old = IF Len(calls) >= 1 /\ ~params.no_context
                     THEN MsToSamples(params.keep_ms) ELSE 0

\* MM:SS.mmm with minutes = t/6000, seconds = (t/100) mod 60 and
\* milliseconds = (t mod 100) * 10
TimestampMMSSmmm(t) ==
    PrintfD(2, t \div 6000) \o ":" \o PrintfD(2, (t \div 100) % 60) \o "."
    \o PrintfD(3, (t % 100) * 10)

\* C5: to_timestamp(t) is MM:SS.mmm for every tick t that is formatted; the
\* records on standard output carry those strings.
C5_TimestampFormat ==
    \A i \in DOMAIN calls : \A j \in DOMAIN calls[i].segs :
        LET seg == calls[i].segs[j] IN
        /\ to_timestamp(seg.t0) = TimestampMMSSmmm(seg.t0)
        /\ to_timestamp(seg.t1) = TimestampMMSSmmm(seg.t1)

\* the bytes of a stream of exactly one window of samples, in the framing of
\* the input mode (float samples, or a wav header and int16_t samples)
OneWindowStreamBytes ==
    IF params.from_wav_file
    THEN WavHeaderBytes + WindowCapacity * SizeofInt16
    ELSE WindowCapacity * SizeofFloat

\* C6: a stream of exactly windowCapacity samples and then end-of-file gives
\* exactly one recognition call, one emission and exit code 0 (the engine not
\* failing).
C6_OneWindowOneCall ==
    (pc = "exited" /\ LoopStarted /\ ~EngineFailed /\ stdin_len = OneWindowStreamBytes)
        => (Len(calls) = 1 /\ n_iter = 1 /\ exit_code = 0)

\* C7: on an empty input stream, in either input mode, the run makes no
\* recognition call, writes no record and exits with code 0.
C7_EmptyStreamNormalStop ==
    (pc = "exited" /\ LoopStarted /\ stdin_len = 0)
        => (calls = <<>> /\ stdout = <<>> /\ exit_code = 0)

\* C8: when the configured output file cannot be opened the process exits
\* with code 3, and nothing has been read from standard input.
C8_SinkOpenFailure ==
    fout = "failed" =>
        /\ pc = "exited"
        /\ exit_code = 3
        /\ n_reads = 0
        /\ cin.pos = 0
        /\ calls = <<>>

\* the output file could not be opened while audio was waiting on standard input
C8_Witness ==
    /\ pc = "exited"
    /\ fout = "failed"
    /\ params.fname_out # ""
    /\ stdin_len > 0

\* C9: a (non-empty) window of all-zero samples under a positive activity
\* threshold is never passed to the recognition engine.
C9_SilentWindowSkipped ==
    \A i \in DOMAIN calls :
        ~(calls[i].window.n > 0 /\ calls[i].window.zero /\ params.vad_thold > 0)

\* C10: an argument the parser rejects ends the process with exit code 1,
\* before the engine is initialized, a sink is opened or audio is read.
C10_ParseFailureExitsOne ==
    parse_error =>
        /\ pc = "exited"
        /\ exit_code = 1
        /\ ctx = "null"
        /\ fout = "unopened"
        /\ n_reads = 0

\* C11: when a started session has ended, the output file is closed if it was
\* opened and the recognition context has been freed.
C11_ShutdownReleases ==
    (pc = "exited" /\ LoopStarted) => (ctx = "freed" /\ fout # "open")

\* the payload bytes of one wav read
WavReadBytes == MsToSamples(WavBufferMs) * SizeofInt16

\* C12: in wav mode only the 44 bytes at the start of the stream are skipped:
\* the i-th window starts right after the header and the i-1 windows before it.
C12_OnlyHeaderSkipped ==
    params.from_wav_file =>
        \A i \in DOMAIN calls :
            calls[i].window.off = WavHeaderBytes + (i - 1) * WavReadBytes

\* C13: standard output holds the record of every segment of every successful
\* call, in order, and an output file that was opened holds the same records
\* in the same order.
C13_FileMirrorsStdout ==
    /\ stdout = EmittedBy(calls)
    /\ fout \in {"open", "closed"} => fout_data = stdout
    /\ fout \notin {"open", "closed"} => fout_data = <<>>

\* two iterations wrote their segments to standard output and to the file
C13_Witness ==
    /\ fout = "closed"
    /\ Len(calls) >= 2
    /\ Len(fout_data) >= 3
    /\ calls[1].segs # <<>>
    /\ calls[2].segs # <<>>

\* C15: whenever the loop runs, window duration >= step duration >= 0 and
\* retained-context duration < step duration.
C15_ConfigurationInvariant ==
    pc \in {"loop", "process"} =>
        /\ params.length_ms >= params.step_ms
        /\ params.step_ms >= 0
        /\ params.keep_ms < params.step_ms

\* C16: in both input modes a read that is processed has pulled exactly one
\* step (step_ms * sampleRate / 1000) of samples.
C16_ReadIsOneStep ==
    pc = "process" =>
        /\ pcmf32 = MsToSamples(params.step_ms)
        /\ cin.gcount = pcmf32 * (IF params.from_wav_file THEN SizeofInt16
                                                          ELSE SizeofFloat)

\* C17: the step on which a recognition call fails, and every step after it,
\* writes nothing to standard output or to the file.
C17_NoOutputAfterFailure ==
    [][ EngineFailed' => (stdout' = stdout /\ fout_data' = fout_data) ]_vars

\* a call failed after an iteration had written its segments to an output file,
\* and the run has closed the file
C17_Witness ==
    /\ pc = "exited"
    /\ EngineFailed
    /\ fout = "closed"
    /\ fout_data # <<>>

\* C18: n_iter is the number of recognition calls that returned 0.
C18_IterationCount ==
    n_iter = Cardinality({ i \in DOMAIN calls : calls[i].ret = 0 })

\* two calls succeeded, a third failed and the run ended: the counter stands
\* at 2
C18_Witness ==
    /\ Len(calls) = 3
    /\ calls[3].ret # 0
    /\ n_iter = 2
    /\ pc = "exited"

C20_ContextBeforeSink ==
    /\ (pc = "exited" /\ exit_code = 2) =>
           (fout = "unopened" /\ ctx = "null" /\ n_reads = 0)
    /\ fout # "unopened" => ctx # "null"
    /\ (pc = "exited" /\ exit_code = 3) => ctx = "live"

\* the model failed to load although an output file was named
C20_Witness ==
    /\ pc = "exited"
    /\ exit_code = 2
    /\ params.fname_out # ""

====
